---------------------------- MODULE Spec2Model ----------------------------
(* The trigger-and-window state machine of MPU_Gait_Classification.ino:    *)
(* setup() brings up the IMU and the classifier, loop() waits for motion,  *)
(* collects numSamples gyroscope rows into the input tensor, runs one      *)
(* inference and prints the scores.  Sensor readings and scores are the    *)
(* sketch's floats, modelled by small integers.  accelerationThreshold is  *)
(* a build-time knob (0 in the sketch): every setting in Thresholds is     *)
(* explored, the sketch's 0 among them.                                    *)
EXTENDS Integers, Sequences, FiniteSets, TLC

(***************************************************************************)
(* Bounds of the model.                                                    *)
(***************************************************************************)
\* window length; the sketch sets 200 (line 32), the model scales it down
numSamples == 3
\* settings of the threshold knob that are explored: 0..MaxThreshold
MaxThreshold == 2
\* the episode counters saturate at MaxCount
MaxCount == 3

(***************************************************************************)
(* Program constants.                                                      *)
(***************************************************************************)
NUM_GAITS == 6
TFLITE_SCHEMA_VERSION == 3

GAITS == <<"Healthy", "Stage 1", "Stage 2", "Stage 3", "Standing", "Turning">>

kTfLiteOk == "kTfLiteOk"
kTfLiteError == "kTfLiteError"
TfLiteStatus == {kTfLiteOk, kTfLiteError}

(***************************************************************************)
(* Inputs.                                                                 *)
(***************************************************************************)
\* acceleration triples: energies 0, 1, 1, 2 and 3, each axis negative once
Accels == {<<0, 0, 0>>, <<1, 0, 0>>, <<0, 0 - 1, 0>>, <<0 - 1, 0, 1>>,
           <<1, 0 - 1, 0 - 1>>}
\* gyroscope triples: the reading {1,0,0} and one whose channels all differ
Gyros == {<<1, 0, 0>>, <<2, 3, 4>>}
Thresholds == 0..MaxThreshold
\* score vectors the classifier may produce
ScoreVectors == {<<0, 1, 0, 0, 0, 0>>, <<5, 4, 3, 2, 1, 0>>}
\* schema versions a model blob may carry
Versions == {TFLITE_SCHEMA_VERSION, TFLITE_SCHEMA_VERSION + 1}

\* output lengths a model blob may have
OutputLengths == {NUM_GAITS - 1, NUM_GAITS, NUM_GAITS + 1}

\* AllocateTensors has not been called
NotRun == "not_run"

NoSample == [a |-> <<0, 0, 0>>, g |-> <<0, 0, 0>>]
NoVal == 0 - 1

VARIABLES
    pc,                    \* position of the sketch
    accelerationThreshold, \* the threshold knob, fixed at build time
    samplesRead,           \* index of the next row / idle marker
    tflInputData,          \* tflInputTensor->data.f, cells 0..3*numSamples-1
    tflOutputData,         \* tflOutputTensor->data.f, NUM_GAITS scores
    serial,                \* lines printed since boot or the latest trigger
    sample,                \* the latest reading returned by mpu.getEvent
    event,                 \* what the latest step did
    polled,                \* gyroscope triples polled in the current episode
    written,               \* cell indices written in the current episode
    triggers,              \* episodes started (saturating)
    windows,               \* windows filled to numSamples rows (saturating)
    invokes,               \* calls of Invoke (saturating)
    quiet,                 \* every reading so far had energy below the threshold
    allocateStatus,        \* what AllocateTensors returned; setup() drops it
    outputLength,          \* floats in the model's output tensor (0: no tensor yet)
    polls                  \* readings polled since boot or the latest Invoke
                           \* (saturating)

vars == <<pc, accelerationThreshold, samplesRead, tflInputData, tflOutputData,
          serial, sample, event, polled, written, triggers, windows, invokes,
          quiet, allocateStatus, outputLength, polls>>

Cells == 0..(3 * numSamples - 1)

Abs(x) == IF x < 0 THEN 0 - x ELSE x

\* one more reading polled; the count is exact up to numSamples + 1
PollCap == numSamples + 2
Polled(n) == IF n < PollCap THEN n + 1 ELSE n

Bump(n) == IF n < MaxCount THEN n + 1 ELSE n

\* the L1 energy |ax| + |ay| + |az| of an acceleration reading
Energy(a) == Abs(a[1]) + Abs(a[2]) + Abs(a[3])

Line(text, val) == [text |-> text, val |-> val]

Println(text) == Line(text, NoVal)

ErrorTexts == {"Failed to initialize IMU!", "Model schema mismatch!", "Invoke failed!"}

IsScoreLine(l) == l.val # NoVal

ConfigLines ==
    << Println("Accelerometer range set to: +-2G"),
       Println("Gyro range set to: +- 2000 deg/s"),
       Println("Filter bandwidth set to: 184 Hz"),
       Println("") >>

(***************************************************************************)
(* Pieces of loop().                                                       *)
(***************************************************************************)
\* line 119: sum up the absolutes
aSumOf(a) == Abs(a[1]) + Abs(a[2]) + Abs(a[3])

\* faulty variant: an energy equal to the threshold does not count
AboveThreshold_Strict(aSum, threshold) == aSum > threshold

\* faulty variant: the comparison is the wrong way round
AboveThreshold_Inverted(aSum, threshold) == aSum <= threshold

\* line 122: check if it's above the threshold
AboveThreshold(aSum, threshold) == aSum >= threshold

\* faulty variant: the first while also runs in the middle of a window
Waiting_MidWindow(n) == n # 0

\* line 112: the first while runs while the counter sits at numSamples
Waiting(n) == n = numSamples

\* faulty variant: the second while runs once more at numSamples
Collecting_Inclusive(n) == n <= numSamples

\* line 131: the second while runs while the counter is below numSamples
Collecting(n) == n < numSamples

ResetCount_Zero == 1 - 1

\* faulty variant: the count restarts at the second row
ResetCount_One == ResetCount_Zero + 1

\* line 124: reset the sample read count
ResetCount == 0

\* faulty variant: rows are two cells apart, so neighbours overlap
CellIndex_Stride2(n, k) == n * 2 + k

\* faulty variant: the channel offset is dropped
CellIndex_NoChannel(n, k) == n * 3

\* lines 140-142: the flattened cell of channel k of row n
CellIndex(n, k) == n * 3 + k

\* a store through data.f; a store outside the tensor does not land in it
Store(data, i, v) == IF i \in DOMAIN data THEN [data EXCEPT ![i] = v] ELSE data

\* lines 136-142: the three stores of one reading (gX and gY are assigned
\* without a declaration in the sketch; they are read as floats like gZ)
WriteRow(data, n, g) ==
    Store(Store(Store(data, CellIndex(n, 0), g[1]), CellIndex(n, 1), g[2]),
          CellIndex(n, 2), g[3])

\* the cell indices those stores use, in program order
RowCells(n) == <<CellIndex(n, 0), CellIndex(n, 1), CellIndex(n, 2)>>

\* faulty variant: the counter is advanced twice per reading
Increment_Twice(n) == n + 2

\* line 145
Increment(n) == n + 1

\* faulty variant: the test for a full window is off by one
WindowFull_Never(n) == n > numSamples

\* faulty variant: the window counts as full one row early
WindowFull_Early(n) == n >= numSamples - 1

\* faulty variant: a row before the last one also counts as a full window
WindowFull_Again(n) == n = numSamples \/ n = numSamples - 1

\* line 147
WindowFull(n) == n = numSamples

\* faulty variant: the scores are read one place further, wrapping round
ScoreLines_Shifted(scores) ==
    [i \in 1..NUM_GAITS |-> Line(GAITS[i] \o ": ", scores[(i % NUM_GAITS) + 1])]
        \o <<Println("")>>

\* lines 157-162: one line per gait, then an empty line
ScoreLines(scores) ==
    [i \in 1..NUM_GAITS |-> Line(GAITS[i] \o ": ", scores[i])] \o <<Println("")>>

(***************************************************************************)
(* Initial state: the globals as initialised at lines 31-47.               *)
(***************************************************************************)
Init ==
    /\ pc = "setup"
    /\ accelerationThreshold \in Thresholds
    /\ samplesRead = numSamples
    /\ tflInputData = [i \in Cells |-> 0]
    /\ tflOutputData = [i \in 1..NUM_GAITS |-> 0]
    /\ serial = <<>>
    /\ sample = NoSample
    /\ event = "boot"
    /\ polled = <<>>
    /\ written = <<>>
    /\ triggers = 0
    /\ windows = 0
    /\ invokes = 0
    /\ quiet = TRUE
    /\ allocateStatus = NotRun
    /\ outputLength = 0
    /\ polls = 0

(***************************************************************************)
(* setup(), lines 66-106.                                                  *)
(***************************************************************************)
\* lines 72-75: the IMU does not start
ImuFailed ==
    /\ serial' = Append(serial, Println("Failed to initialize IMU!"))
    /\ pc' = "halt_imu"
    /\ event' = "imu_failed"

\* faulty variant: the mismatch is printed and setup() carries on
SchemaMismatch_NoHalt ==
    /\ serial' = (serial \o ConfigLines) \o <<Println("Model schema mismatch!")>>
    /\ pc' = "loop"
    /\ event' = "schema_mismatch"

\* lines 77-95: the IMU is configured, the model's schema version is wrong
SchemaMismatch ==
    /\ serial' = (serial \o ConfigLines) \o <<Println("Model schema mismatch!")>>
    /\ pc' = "halt_schema"
    /\ event' = "schema_mismatch"

\* lines 77-106: the IMU is configured and the interpreter is created
SetupDone ==
    /\ serial' = serial \o ConfigLines
    /\ pc' = "loop"
    /\ event' = "setup_done"

\* lines 97-105: the interpreter is created and AllocateTensors is called;
\* its status is not looked at, and setup() returns whatever it was.  The
\* tensor pointers are then used by loop() as they are: tflInputData and
\* tflOutputData stand for the cells those pointers designate.  The length
\* of the output tensor is the model's and is compared with nothing.
TensorsTaken(allocStatus, outLen) ==
    /\ allocateStatus' = allocStatus
    /\ outputLength' = outLen

SetupStep(imuOk, version, allocStatus, outLen) ==
    /\ pc = "setup"
    /\ IF ~imuOk
       THEN ImuFailed /\ UNCHANGED <<allocateStatus, outputLength>>
       ELSE IF version # TFLITE_SCHEMA_VERSION
       THEN SchemaMismatch /\ UNCHANGED <<allocateStatus, outputLength>>
       ELSE SetupDone /\ TensorsTaken(allocStatus, outLen)
    /\ UNCHANGED <<accelerationThreshold, samplesRead, tflInputData,
                   tflOutputData, sample, polled, written, triggers, windows,
                   invokes, quiet, polls>>

setup ==
    \E imuOk \in BOOLEAN, version \in Versions, allocStatus \in TfLiteStatus,
       outLen \in OutputLengths :
        SetupStep(imuOk, version, allocStatus, outLen)

(***************************************************************************)
(* loop(), first while (lines 112-127): wait for significant motion.       *)
(***************************************************************************)
\* faulty variant: the reading that triggers is stored as row 0
WaitStep_StoresRow(a, g) ==
    /\ pc = "loop"
    /\ Waiting(samplesRead)
    /\ sample' = [a |-> a, g |-> g]
    /\ quiet' = (quiet /\ Energy(a) < accelerationThreshold)
    /\ polls' = Polled(polls)
    /\ IF AboveThreshold(aSumOf(a), accelerationThreshold)
       THEN /\ tflInputData' = WriteRow(tflInputData, ResetCount, g)
            /\ samplesRead' = Increment(ResetCount)
            /\ event' = "trigger"
            /\ triggers' = Bump(triggers)
            /\ polled' = <<g>>
            /\ written' = RowCells(ResetCount)
            /\ serial' = <<>>
       ELSE /\ event' = "quiet"
            /\ UNCHANGED <<samplesRead, triggers, polled, written, serial,
                           tflInputData>>
    /\ UNCHANGED <<pc, accelerationThreshold, tflOutputData,
                   windows, invokes, allocateStatus, outputLength>>

WaitStep(a, g) ==
    /\ pc = "loop"
    /\ Waiting(samplesRead)
    /\ sample' = [a |-> a, g |-> g]
    /\ quiet' = (quiet /\ Energy(a) < accelerationThreshold)
    /\ polls' = Polled(polls)
    /\ IF AboveThreshold(aSumOf(a), accelerationThreshold)
       THEN /\ samplesRead' = ResetCount
            /\ event' = "trigger"
            /\ triggers' = Bump(triggers)
            /\ polled' = <<>>
            /\ written' = <<>>
            /\ serial' = <<>>
       ELSE /\ event' = "quiet"
            /\ UNCHANGED <<samplesRead, triggers, polled, written, serial>>
    /\ UNCHANGED <<pc, accelerationThreshold, tflInputData, tflOutputData,
                   windows, invokes, allocateStatus, outputLength>>

WaitForMotion == \E a \in Accels, g \in Gyros : WaitStep(a, g)

(***************************************************************************)
(* loop(), second while (lines 131-147): one reading, one row.             *)
(***************************************************************************)
\* faulty variant: a reading below the threshold abandons the window
CollectStep_AbortOnQuiet(a, g) ==
    /\ pc = "loop"
    /\ Collecting(samplesRead)
    /\ sample' = [a |-> a, g |-> g]
    /\ quiet' = (quiet /\ Energy(a) < accelerationThreshold)
    /\ polls' = Polled(polls)
    /\ IF AboveThreshold(aSumOf(a), accelerationThreshold)
       THEN /\ tflInputData' = WriteRow(tflInputData, samplesRead, g)
            /\ samplesRead' = Increment(samplesRead)
            /\ polled' = Append(polled, g)
            /\ written' = written \o RowCells(samplesRead)
            /\ event' = "row"
            /\ IF WindowFull(samplesRead')
               THEN /\ pc' = "invoke"
                    /\ windows' = Bump(windows)
               ELSE UNCHANGED <<pc, windows>>
       ELSE /\ samplesRead' = numSamples
            /\ event' = "abort"
            /\ UNCHANGED <<tflInputData, polled, written, pc, windows>>
    /\ UNCHANGED <<accelerationThreshold, tflOutputData, serial, triggers,
                   invokes, allocateStatus, outputLength>>

CollectStep(a, g) ==
    /\ pc = "loop"
    /\ Collecting(samplesRead)
    /\ sample' = [a |-> a, g |-> g]
    /\ quiet' = (quiet /\ Energy(a) < accelerationThreshold)
    /\ polls' = Polled(polls)
    /\ tflInputData' = WriteRow(tflInputData, samplesRead, g)
    /\ samplesRead' = Increment(samplesRead)
    /\ polled' = Append(polled, g)
    /\ written' = written \o RowCells(samplesRead)
    /\ event' = "row"
    /\ IF WindowFull(samplesRead')
       THEN /\ pc' = "invoke"
            /\ windows' = Bump(windows)
       ELSE UNCHANGED <<pc, windows>>
    /\ UNCHANGED <<accelerationThreshold, tflOutputData, serial, triggers,
                   invokes, allocateStatus, outputLength>>

CollectSample == \E a \in Accels, g \in Gyros : CollectStep(a, g)

(***************************************************************************)
(* loop(), lines 149-154: run inferencing.                                 *)
(***************************************************************************)
\* faulty variant: the failure is printed and the scores are printed anyway
InvokeFailed_NoHalt ==
    /\ serial' = Append(serial, Println("Invoke failed!"))
    /\ pc' = "report"
    /\ event' = "invoke_failed"
    /\ UNCHANGED tflOutputData

\* lines 150-154: Invoke did not return kTfLiteOk
InvokeFailed ==
    /\ serial' = Append(serial, Println("Invoke failed!"))
    /\ pc' = "halt_invoke"
    /\ event' = "invoke_failed"
    /\ UNCHANGED tflOutputData

InvokeStep(invokeStatus, scores) ==
    /\ pc = "invoke"
    /\ invokes' = Bump(invokes)
    /\ polls' = 0
    /\ IF invokeStatus # kTfLiteOk
       THEN InvokeFailed
       ELSE /\ tflOutputData' = scores
            /\ pc' = "report"
            /\ event' = "invoke_ok"
            /\ UNCHANGED serial
    /\ UNCHANGED <<accelerationThreshold, samplesRead, tflInputData, sample,
                   polled, written, triggers, windows, quiet, allocateStatus, outputLength>>

RunInference ==
    \E invokeStatus \in TfLiteStatus, scores \in ScoreVectors :
        InvokeStep(invokeStatus, scores)

(***************************************************************************)
(* loop(), lines 156-162: print the scores; loop() then returns and is     *)
(* entered again.                                                          *)
(***************************************************************************)
PrintScores ==
    /\ pc = "report"
    /\ serial' = serial \o ScoreLines(tflOutputData)
    /\ pc' = "loop"
    /\ event' = "report"
    /\ UNCHANGED <<accelerationThreshold, samplesRead, tflInputData,
                   tflOutputData, sample, polled, written, triggers, windows,
                   invokes, quiet, allocateStatus, outputLength, polls>>

Next == setup \/ WaitForMotion \/ CollectSample \/ RunInference \/ PrintScores

Spec == Init /\ [][Next]_vars

(***************************************************************************)
(* The runs in which setup() succeeds and Invoke never fails, with the     *)
(* scheduling of the sketch: loop() is entered again and again, getEvent   *)
(* returns, and readings above the threshold keep coming.                  *)
(***************************************************************************)
SetupSucceeds == SetupStep(TRUE, TFLITE_SCHEMA_VERSION, kTfLiteOk, NUM_GAITS)

\* a poll of the first while whose reading is above the threshold
TriggerPoll ==
    \E a \in Accels, g \in Gyros :
        AboveThreshold(aSumOf(a), accelerationThreshold) /\ WaitStep(a, g)

InferenceSucceeds == \E scores \in ScoreVectors : InvokeStep(kTfLiteOk, scores)

LiveNext ==
    SetupSucceeds \/ WaitForMotion \/ CollectSample \/ InferenceSucceeds
        \/ PrintScores

LiveSpec ==
    /\ Init /\ [][LiveNext]_vars
    /\ WF_vars(SetupSucceeds)
    /\ WF_vars(TriggerPoll)
    /\ WF_vars(CollectSample)
    /\ WF_vars(InferenceSucceeds)
    /\ WF_vars(PrintScores)

(***************************************************************************)
(* The states of the episode state machine.                                *)
(***************************************************************************)
Running == pc \in {"loop", "invoke", "report"}
IDLE == pc = "loop" /\ Waiting(samplesRead)
COLLECTING == pc = "loop" /\ Collecting(samplesRead)
Halted == pc \in {"halt_imu", "halt_schema", "halt_invoke"}

TypeOK ==
    /\ pc \in {"setup", "loop", "invoke", "report", "halt_imu", "halt_schema",
               "halt_invoke"}
    /\ accelerationThreshold \in Thresholds
    /\ samplesRead \in 0..numSamples
    /\ DOMAIN tflInputData = Cells
    /\ Len(polled) <= numSamples
    /\ triggers \in 0..MaxCount /\ windows \in 0..MaxCount /\ invokes \in 0..MaxCount

(***************************************************************************)
(* Properties.                                                             *)
(***************************************************************************)
InvokeEvents == {"invoke_ok", "invoke_failed"}

\* the classifier is being invoked, or has just been, on the present buffer
AtInvoke == pc = "invoke" \/ event \in InvokeEvents

\* the rows stored since the trigger
RowsWritten == {written[j] \div 3 : j \in 1..Len(written)}

\* C1: whenever the classifier is invoked, exactly numSamples rows have been
\* written into the input buffer since the trigger of the episode: 3 cells
\* for each of numSamples readings, never fewer and never more.
C1_RowCountExact ==
    AtInvoke =>
        /\ Len(polled) = numSamples
        /\ Len(written) = 3 * numSamples
        /\ Cardinality(RowsWritten) = numSamples

\* a window is handed to the classifier in a second or later episode
C1_Witness ==
    pc = "invoke" /\ triggers = 2 /\ Len(polled) = numSamples

\* C2: at every invocation row i of the input buffer (cells 3i, 3i+1, 3i+2)
\* holds the gyroscope triple of the i-th reading polled while collecting,
\* in arrival order.
C2_WindowContents ==
    AtInvoke =>
        /\ Len(polled) = numSamples
        /\ \A i \in 0..(numSamples - 1) : \A k \in 0..2 :
               tflInputData[3 * i + k] = polled[i + 1][k + 1]

\* a second window whose rows differ from each other is handed over
C2_Witness ==
    /\ pc = "invoke" /\ triggers = 2
    /\ polled[1] = <<2, 3, 4>> /\ polled[numSamples] = <<1, 0, 0>>

\* the counters still hold the true numbers
Exact == triggers < MaxCount

\* C3: the classifier is invoked exactly once per episode: the invocations
\* equal the triggers once an episode is over, are one behind while a window
\* is being collected or awaits its inference, and the step that fills the
\* window is the one that reaches the invocation.
C3_OneInferencePerEpisode ==
    /\ (event = "row" /\ samplesRead = numSamples) => pc = "invoke"
    /\ Exact =>
          /\ (COLLECTING \/ pc = "invoke") => invokes = triggers - 1
          /\ ~(COLLECTING \/ pc = "invoke") => invokes = triggers
          /\ COLLECTING => windows = triggers - 1
          /\ ~COLLECTING => windows = triggers

\* the second episode has ended and its single inference is counted
C3_Witness == IDLE /\ event = "report" /\ triggers = 2 /\ invokes = 2

\* C4: while a window is being collected no trigger fires and the index is
\* never set back: every step taken while COLLECTING stores one more row.
C4_OneActiveEpisode ==
    [][COLLECTING =>
          /\ triggers' = triggers
          /\ event' # "trigger"
          /\ samplesRead' = samplesRead + 1
          /\ Len(polled') = Len(polled) + 1]_vars

\* a reading above the threshold is polled in the middle of a window
C4_Witness ==
    /\ COLLECTING /\ samplesRead = 1 /\ event = "row" /\ accelerationThreshold > 0
    /\ Energy(sample.a) >= accelerationThreshold

\* C5: 0 <= samplesRead <= numSamples always; the classifier is invoked only
\* with samplesRead = numSamples; the step that brings samplesRead to
\* numSamples reaches the invocation, and no reading is polled between a
\* full window and its inference.
C5_CounterInvariant ==
    /\ samplesRead \in 0..numSamples
    /\ AtInvoke => samplesRead = numSamples
    /\ (event = "row" /\ samplesRead = numSamples) => pc = "invoke"
    /\ (event \in {"quiet", "trigger"} /\ windows < MaxCount) => invokes = windows
    /\ (event = "row" /\ samplesRead < numSamples /\ windows < MaxCount)
          => invokes = windows

\* the counter has just reached numSamples
C5_Witness == event = "row" /\ samplesRead = numSamples /\ pc = "invoke"

\* C6: a reading polled in IDLE starts an episode if and only if its energy
\* |ax| + |ay| + |az| is at least the threshold (equality included); the
\* trigger sets the index to 0, and a reading below the threshold leaves the
\* state IDLE and the index unchanged.
C6_TriggerCondition ==
    /\ event = "trigger" =>
          /\ Energy(sample.a) >= accelerationThreshold
          /\ pc = "loop" /\ samplesRead = 0
    /\ event = "quiet" =>
          /\ Energy(sample.a) < accelerationThreshold
          /\ pc = "loop" /\ samplesRead = numSamples

\* a reading whose energy equals a positive threshold has started an episode
C6_Witness ==
    /\ event = "trigger" /\ accelerationThreshold > 0
    /\ Energy(sample.a) = accelerationThreshold

NoScoreLine == \A j \in 1..Len(serial) : ~IsScoreLine(serial[j])

\* C7: with a threshold above 0, as long as every reading polled since boot
\* had an energy below the threshold, no episode has started, no row has
\* been written and the classifier has not been invoked.
C7_NoTriggerNoInference ==
    (accelerationThreshold > 0 /\ quiet) =>
        /\ triggers = 0 /\ windows = 0 /\ invokes = 0
        /\ polled = <<>> /\ written = <<>>
        /\ tflInputData = [i \in Cells |-> 0]
        /\ pc \in {"setup", "loop", "halt_imu", "halt_schema"}
        /\ samplesRead = numSamples
        /\ NoScoreLine

\* a reading with some motion, yet below the threshold, has been polled
C7_Witness ==
    /\ accelerationThreshold > 0 /\ quiet /\ event = "quiet"
    /\ Energy(sample.a) > 0

\* C8 as stated: once the report of an episode is out, the state is IDLE
\* with the sample index equal to 0.
C8_IndexZeroAfterEpisode ==
    event = "report" => (pc = "loop" /\ samplesRead = 0)

\* C8, amended: once the report of an episode is out, the state is IDLE
\* with the index still numSamples; the index is set to 0 by the next
\* trigger, and the first row of every window is stored at row 0.
C8_ResetAfterEpisode ==
    /\ event = "report" => IDLE
    /\ event = "trigger" => (samplesRead = 0 /\ written = <<>> /\ polled = <<>>)
    /\ Len(written) > 0 => written[1] = 0

\* the first row of a second window has been stored
C8_Witness == triggers = 2 /\ event = "row" /\ Len(written) = 3

ErrorLines == {j \in 1..Len(serial) : serial[j].text \in ErrorTexts}

\* C9: a failed invocation prints "Invoke failed!", prints no score line for
\* the episode and halts the sketch for good: no step follows the halt.
C9_InferenceFailureFatal ==
    /\ [](/\ event = "invoke_failed" => pc = "halt_invoke"
          /\ pc = "halt_invoke" =>
                /\ event = "invoke_failed"
                /\ serial = <<Println("Invoke failed!")>>
                /\ NoScoreLine)
    /\ [][pc = "halt_invoke" => UNCHANGED vars]_vars

\* the inference of a second episode has failed
C9_Witness == pc = "halt_invoke" /\ triggers = 2 /\ invokes = 2

StartupHalt == pc \in {"halt_imu", "halt_schema"}

\* C10: a failed IMU start or a schema mismatch prints exactly one error
\* message, other than that of a failed inference, and halts the sketch
\* for good before any reading is polled, any episode starts, any inference
\* runs or any score is printed.
C10_StartupFailureTerminal ==
    /\ [](/\ event = "imu_failed" => pc = "halt_imu"
          /\ event = "schema_mismatch" => pc = "halt_schema"
          /\ pc = "halt_imu" => event = "imu_failed"
          /\ pc = "halt_schema" => event = "schema_mismatch"
          /\ StartupHalt =>
                /\ Cardinality(ErrorLines) = 1
                /\ \A j \in ErrorLines : serial[j].text # "Invoke failed!"
                /\ sample = NoSample
                /\ triggers = 0 /\ windows = 0 /\ invokes = 0
                /\ written = <<>>
                /\ NoScoreLine)
    /\ [][StartupHalt => UNCHANGED vars]_vars

\* setup() has stopped on a schema mismatch
C10_Witness == pc = "halt_schema" /\ Len(serial) = Len(ConfigLines) + 1

\* C11: no failure of the classifier set-up is swallowed: when AllocateTensors
\* has failed, the sketch has printed an error and halted in setup(), so
\* loop() never polls, stores a row or invokes the classifier.
C11_NoSetupFailureSwallowed ==
    allocateStatus = kTfLiteError =>
        /\ StartupHalt
        /\ Cardinality(ErrorLines) >= 1
        /\ sample = NoSample /\ written = <<>> /\ invokes = 0

\* the report of the scores now in the output tensor: label i with score i
\* for i = 1..6 in table order, then one empty line
ExpectedReport ==
    [i \in 1..7 |->
        IF i <= 6 THEN [text |-> GAITS[i] \o ": ", val |-> tflOutputData[i]]
                  ELSE [text |-> "", val |-> NoVal]]

ScoreLinesPrinted == {j \in 1..Len(serial) : IsScoreLine(serial[j])}

\* C12: an episode whose inference succeeded prints its report exactly once:
\* six lines, label i with score i in table order, then an empty line; score
\* lines are on the serial line at no other time, and printing the report
\* changes neither the sample index nor the input buffer.
C12_Reporting ==
    /\ [](/\ event = "report" => serial = ExpectedReport
          /\ ScoreLinesPrinted # {} =>
                /\ serial = ExpectedReport
                /\ IDLE /\ event \in {"report", "quiet"}
          /\ (event = "invoke_ok" \/ pc = "report") => ScoreLinesPrinted = {})
    /\ [][pc = "report" =>
            /\ samplesRead' = samplesRead
            /\ tflInputData' = tflInputData]_vars

\* the second episode's report, with scores that all differ, is out
C12_Witness ==
    /\ event = "report" /\ triggers = 2
    /\ tflOutputData = <<5, 4, 3, 2, 1, 0>> /\ Len(serial) = 7

\* C13: a label table whose number of entries differs from the length of the
\* classifier's output is caught at startup: once setup() is over the sketch
\* is halted in the startup-error state, and no report is printed from an
\* output of another length than the table.
C13_LabelOutputAgreement ==
    /\ (pc # "setup" /\ outputLength # Len(GAITS)) => StartupHalt
    /\ event = "report" => outputLength = Len(GAITS)

\* C14: when setup() succeeds, the sensor keeps answering, readings above the
\* threshold keep coming and Invoke never fails, every IDLE state is
\* followed by COLLECTING, every COLLECTING state by the report of its
\* episode and the return to IDLE, and reports are printed again and again.
C14_Progress ==
    /\ IDLE ~> COLLECTING
    /\ COLLECTING ~> (event = "report" /\ IDLE)
    /\ []<>(event = "report")

\* a third episode has been reported
C14_Witness == event = "report" /\ IDLE /\ triggers = 3 /\ invokes = 3

\* C15: while COLLECTING every iteration polls one reading, stores it in the
\* row at the current index and advances the index by one, so the rows of
\* an episode are written once each, in the order 0, 1, ..., numSamples-1.
C15_OneSampleOneRow ==
    /\ [](triggers > 0 =>
            /\ Len(polled) = samplesRead
            /\ Len(written) = 3 * samplesRead
            /\ \A j \in 1..Len(written) : written[j] = j - 1)
    /\ [][COLLECTING =>
            /\ samplesRead' = samplesRead + 1
            /\ polled' = Append(polled, sample'.g)
            /\ written' = written \o <<3 * samplesRead, 3 * samplesRead + 1,
                                        3 * samplesRead + 2>>
            /\ \A k \in 0..2 : tflInputData'[3 * samplesRead + k] = sample'.g[k + 1]
            /\ \A c \in Cells : c \div 3 # samplesRead =>
                                    tflInputData'[c] = tflInputData[c]]_vars

\* the last row of a second window has been stored
C15_Witness ==
    /\ triggers = 2 /\ event = "row" /\ samplesRead = numSamples
    /\ Len(written) = 3 * numSamples

\* the input buffer after the reading g has been stored in row n
RowStored(data, n, g) ==
    [c \in Cells |-> IF c \div 3 = n THEN g[(c % 3) + 1] ELSE data[c]]

\* C16: the acceleration polled while COLLECTING is ignored: the state that
\* follows a COLLECTING state is a function of that state and of the
\* gyroscope reading alone, so runs that differ only in those accelerations
\* go through the same states, windows, inferences and reports; a reading
\* below the threshold neither abandons nor restarts the window.
C16_AccelerationIgnored ==
    [][COLLECTING =>
          /\ samplesRead' = samplesRead + 1
          /\ pc' = (IF samplesRead + 1 = numSamples THEN "invoke" ELSE "loop")
          /\ tflInputData' = RowStored(tflInputData, samplesRead, sample'.g)
          /\ tflOutputData' = tflOutputData
          /\ serial' = serial
          /\ triggers' = triggers /\ invokes' = invokes]_vars

\* a reading below the threshold has been stored in the middle of a window
C16_Witness ==
    /\ COLLECTING /\ event = "row" /\ samplesRead = 2
    /\ Energy(sample.a) < accelerationThreshold

\* C17: with the sketch's threshold 0 the first reading polled in IDLE starts
\* an episode whatever its acceleration, so no poll leaves the state IDLE,
\* and every inference comes after exactly numSamples + 1 polls: the poll
\* of the trigger and the numSamples polls of the window.
C17_DefaultThresholdAlwaysTriggers ==
    accelerationThreshold = 0 =>
        /\ event # "quiet"
        /\ IDLE => polls = 0
        /\ COLLECTING => polls = samplesRead + 1
        /\ pc = "invoke" => polls = numSamples + 1

\* with threshold 0 a motionless reading has started a second episode
C17_Witness ==
    /\ accelerationThreshold = 0 /\ event = "trigger" /\ triggers = 2
    /\ Energy(sample.a) = 0 /\ polls = 1

\* C18: loop() is first entered in IDLE with samplesRead = numSamples, and a
\* poll in IDLE, the one that triggers included, writes no cell of the input
\* buffer and invokes nothing; the gyroscope values of the triggering
\* reading are dropped and row 0 is taken from the poll after it.
C18_IdlePollsLeaveWindow ==
    /\ [](/\ event = "setup_done" => (IDLE /\ samplesRead = numSamples)
          /\ event \in {"trigger", "quiet"} => pc = "loop"
          /\ event = "trigger" => (written = <<>> /\ polled = <<>>))
    /\ [][IDLE =>
            /\ tflInputData' = tflInputData
            /\ tflOutputData' = tflOutputData
            /\ invokes' = invokes /\ windows' = windows]_vars
    /\ [][event = "trigger" =>
            /\ polled' = <<sample'.g>>
            /\ \A k \in 0..2 : tflInputData'[k] = sample'.g[k + 1]]_vars

\* a reading has triggered whose gyroscope values differ from row 0
C18_Witness ==
    /\ event = "trigger" /\ triggers = 2
    /\ sample.g = <<2, 3, 4>> /\ tflInputData[0] = 1

CellsWritten == {written[j] : j \in 1..Len(written)}

\* C19: every store into the flattened input buffer uses a cell index in
\* 0..3*numSamples-1, the cell 3*row+k of a row below numSamples, and the
\* cells stored over one episode are exactly the cells 0..3*numSamples-1.
C19_InBoundsWrites ==
    /\ \A j \in 1..Len(written) :
          /\ written[j] >= 0 /\ written[j] < 3 * numSamples
          /\ written[j] = 3 * ((j - 1) \div 3) + ((j - 1) % 3)
          /\ (j - 1) \div 3 < numSamples
    /\ AtInvoke =>
          /\ CellsWritten = 0..(3 * numSamples - 1)
          /\ Len(written) = 3 * numSamples

\* the highest cell has been stored in a third episode
C19_Witness ==
    /\ triggers = 3 /\ event = "row" /\ Len(written) = 3 * numSamples
    /\ written[Len(written)] = 3 * numSamples - 1
=============================================================================
